---- MODULE Spec2Model ----
(***************************************************************************)
(* Model of function_schema/core.py: get_function_schema and guess_type.   *)
(* A callable is a name, a docstring and an ordered list of parameters;    *)
(* each parameter has a name, an annotation (a type expression) and a      *)
(* default.  get_function_schema is modelled as Call / ProcessParam /      *)
(* Return; guess_type and the typing helpers are operators.                *)
(* isinstance/issubclass follow CPython 3.11.                              *)
(***************************************************************************)
EXTENDS Integers, Sequences, FiniteSets, TLC

\* ------------------------------------------------------------------ bounds
MaxLit == 2
MaxUnion == 2
MaxMeta == 2
MaxParams == 2
MaxSeed == 1

\* ------------------------------------------------- type expressions (typing)
\* A type expression or metadata object: tag, get_args-style arguments, and
\* the literal values / enum member names / documentation text it carries.
Ty(tag, args, lits) == [tag |-> tag, args |-> args, lits |-> lits]

Atom(tag) == Ty(tag, <<>>, <<>>)

NoneType == Atom("NoneType")

\* inspect._empty, the "not provided" sentinel of annotations and defaults
Empty == "_empty"

Literal(vals) == Ty("Literal", <<>>, vals)

Union(members) == Ty("Union", members, <<>>)

Annotated(base, meta) == Ty("Annotated", <<base>> \o meta, <<>>)

Doc(text) == Ty("Doc", <<>>, <<text>>)

StrObj(text) == Ty("strobj", <<>>, <<text>>)

EnumClass(members) == Ty("Enum", <<>>, members)

\* classes, i.e. objects for which isinstance(T, type) holds
ClassTags == {"str", "bool", "int", "float", "NoneType", "_empty", "list",
              "dict", "tuple", "object", "Enum"}

\* parameterized generics list[int], dict[str, int], tuple[int]
GenericTags == {"list[int]", "dict[str,int]", "tuple[int]"}

get_origin(T) ==
    CASE T.tag = "Annotated" -> "Annotated"
      [] T.tag = "Union" -> "Union"
      [] T.tag = "Literal" -> "Literal"
      [] T.tag = "list[int]" -> "list"
      [] T.tag = "dict[str,int]" -> "dict"
      [] T.tag = "tuple[int]" -> "tuple"
      [] OTHER -> "None"

\* Literal values are written as Python source text
LitType(v) ==
    CASE v \in {"'a'", "'b'", "''"} -> "str"
      [] v \in {"1", "0"} -> "int"
      [] v \in {"True", "False"} -> "bool"
      [] OTHER -> "NoneType"

\* bool(v), as used by all(get_args(T))
Truthy(v) == v \in {"'a'", "'b'", "1", "True"}

RECURSIVE Dedup(_)
Dedup(s) ==
    IF s = <<>> THEN <<>>
    ELSE LET rest == Dedup(SubSeq(s, 1, Len(s) - 1))
             x == s[Len(s)]
         IN IF \E j \in 1..Len(rest) : rest[j] = x THEN rest
            ELSE Append(rest, x)

Range(s) == {s[j] : j \in 1..Len(s)}

\* Union[tuple(...)]: typing removes duplicates and returns the single
\* argument itself when only one is left
MakeUnion(members) ==
    LET d == Dedup(members)
    IN IF Len(d) = 1 THEN d[1] ELSE Union(d)

\* ------------------------------------------------------------ set ordering
\* list(set(xs)): the elements of xs once each, in the iteration order of the
\* hash table, which depends on the interpreter's hash seed.
TokenOrder == <<"string", "boolean", "number", "array", "object">>

ListOfSet(S, universe, seed) ==
    LET N == Len(universe)
        rotated == [k \in 1..N |-> universe[((k - 1 + seed) % N) + 1]]
    IN SelectSeq(rotated, LAMBDA x : x \in S)

\* --------------------------------------------------------------- guess_type
GT(kind, toks) == [kind |-> kind, toks |-> toks]

GTNone == GT("None", <<>>)

GTToken(t) == GT("str", <<t>>)

RECURSIVE guess_type(_, _)
guess_type(T, seed) ==
    IF T.tag = "Any" THEN GT("dict", <<>>)
    ELSE IF get_origin(T) = "Annotated" THEN guess_type(T.args[1], seed)
    ELSE IF get_origin(T) = "Union" THEN
        LET union_types == SelectSeq(T.args, LAMBDA t : t.tag # "NoneType")
            mapped == [j \in 1..Len(union_types) |-> guess_type(union_types[j], seed)]
            types == SelectSeq(mapped, LAMBDA r : r.kind # "None")
        IN IF \E j \in 1..Len(mapped) : mapped[j].kind = "raise"
           THEN GT("raise", <<>>)
           ELSE IF \E j \in 1..Len(types) : types[j].kind \in {"list", "dict"}
           THEN GT("raise", <<>>)
           ELSE LET dedup == ListOfSet({types[j].toks[1] : j \in 1..Len(types)},
                                        TokenOrder, seed)
                IN IF Len(dedup) = 1 THEN GTToken(dedup[1])
                   ELSE GT("list", dedup)
    ELSE IF get_origin(T) = "Literal" THEN
        guess_type(MakeUnion([j \in 1..Len(T.lits) |-> Atom(LitType(T.lits[j]))]), seed)
    ELSE IF get_origin(T) \in {"list", "tuple"} THEN GTToken("array")
    ELSE IF get_origin(T) = "dict" THEN GTToken("object")
    ELSE IF T.tag \notin ClassTags THEN GTNone
    ELSE IF T.tag = "NoneType" THEN GTNone
    ELSE IF T.tag = "str" THEN GTToken("string")
    ELSE IF T.tag = "bool" THEN GTToken("boolean")
    ELSE IF T.tag \in {"float", "int"} THEN GTToken("number")
    ELSE IF T.tag = "list" THEN GTToken("array")
    ELSE IF T.tag = "dict" THEN GTToken("object")
    ELSE GTNone

\* ------------------------------------------------------ isinstance(None, T)
\* issubclass(type(None), m) for one member m of a typing.Union
IsSubclassNone(m) ==
    CASE m.tag \in {"NoneType", "object"} -> "True"
      [] m.tag \in ClassTags \ {"NoneType", "object"} -> "False"
      [] m.tag = "Any" -> "False"
      [] OTHER -> "raise"

\* Union.__instancecheck__: the members are tried in order, the first member
\* that accepts None or rejects the check decides
RECURSIVE UnionInstanceCheck(_)
UnionInstanceCheck(members) ==
    IF members = <<>> THEN "False"
    ELSE LET r == IsSubclassNone(Head(members))
         IN IF r = "False" THEN UnionInstanceCheck(Tail(members)) ELSE r

IsInstanceNone(T) ==
    CASE T.tag = "Union" -> UnionInstanceCheck(T.args)
      [] T.tag \in {"NoneType", "object"} -> "True"
      [] T.tag \in ClassTags \ {"NoneType", "object"} -> "False"
      [] OTHER -> "raise"

\* ------------------------------------------- per-parameter extraction steps
is_annotated(param) == get_origin(param.annotation) = "Annotated"

param_args(param) == param.annotation.args

\* T: the first Annotated argument, or the annotation itself
BaseType(param) ==
    IF is_annotated(param) THEN param_args(param)[1] ELSE param.annotation

FirstWith(args, tag) ==
    LET hits == SelectSeq(args, LAMBDA a : a.tag = tag)
    IN IF hits = <<>> THEN <<>> ELSE <<hits[1]>>

unwrap_doc(obj) == obj.lits[1]

description(param) ==
    IF is_annotated(param) THEN
        LET docs == FirstWith(param_args(param), "Doc")
            strs == FirstWith(param_args(param), "strobj")
        IN IF docs # <<>> THEN unwrap_doc(docs[1])
           ELSE IF strs # <<>> THEN strs[1].lits[1]
           ELSE "The {name} parameter"
    ELSE "The " \o param.name \o " parameter"

\* variant: a Literal base type wins over an enumeration type
enum_LiteralFirst(param) ==
    LET T == BaseType(param)
        enums == IF is_annotated(param)
                 THEN FirstWith(param_args(param), "Enum") ELSE <<>>
    IN IF get_origin(T) = "Literal" THEN <<T.lits>>
       ELSE IF enums # <<>> THEN <<enums[1].lits>> ELSE <<>>

\* enum_: <<>> stands for None, <<vals>> for a sequence of values
enum_(param) ==
    LET T == BaseType(param)
        literal == IF get_origin(T) = "Literal" THEN <<T.lits>> ELSE <<>>
    IN IF is_annotated(param) THEN
           LET enums == FirstWith(param_args(param), "Enum")
           IN IF enums # <<>> THEN <<enums[1].lits>> ELSE literal
       ELSE literal

\* variant: a falsy default is taken for "no default"
default_value_Truthy(param) ==
    IF param.default \notin {Empty, "None"} THEN param.default ELSE Empty

default_value(param) ==
    IF param.default # Empty THEN param.default ELSE Empty

\* the entry stored under properties[name]; keys is the set of keys present
PropertyEntry(param, seed) ==
    LET e == enum_(param)
        dv == default_value(param)
    IN [name |-> param.name,
        keys |-> {"type", "description"}
                 \cup (IF e # <<>> THEN {"enum"} ELSE {})
                 \cup (IF dv # Empty THEN {"default"} ELSE {}),
        type |-> guess_type(BaseType(param), seed),
        description |-> description(param),
        enum |-> IF e # <<>> THEN SelectSeq(e[1], LAMBDA t : t # "None") ELSE <<>>,
        default |-> dv]

\* variant: the first test does not exclude Literal types
NonLiteralRequired_NoOriginTest(T, dv) ==
    IF get_origin(T) # "Literal" /\ IsInstanceNone(T) = "raise" THEN "raise"
    ELSE IF get_origin(T) # "Literal" /\ IsInstanceNone(T) = "True" THEN "False"
    ELSE IF dv = Empty THEN "True" ELSE "False"

\* first required test: "True", "False", or "raise" when isinstance raises
NonLiteralRequired(T, dv) ==
    IF get_origin(T) = "Literal" THEN "False"
    ELSE IF IsInstanceNone(T) = "raise" THEN "raise"
    ELSE IF IsInstanceNone(T) = "True" THEN "False"
    ELSE IF dv = Empty THEN "True" ELSE "False"

\* second required test
LiteralRequired(T) ==
    get_origin(T) = "Literal" /\ \A j \in 1..Len(T.lits) : Truthy(T.lits[j])

\* variant: the envelope key is "parameters" for "openai" only
parms_key_OpenaiOnly(format) ==
    IF format = "openai" THEN "parameters" ELSE "input_schema"

parms_key(format) == IF format = "claude" THEN "input_schema" ELSE "parameters"

\* ------------------------------------------------------------------ inputs
\* non-empty sequences of distinct elements of S, of length at most n
DistinctSeqs(S, n) ==
    {s \in UNION {[1..k -> S] : k \in 1..n} :
        \A a, b \in 1..Len(s) : a # b => s[a] # s[b]}

ParamNames == <<"city", "unit", "count", "flag">>

Formats == {"openai", "claude", "None"}

\* param.default: inspect._empty when the signature gives no default
Defaults == {Empty, "None", "'D'"}

LitVals == {"'a'", "''", "1", "0", "False", "None"}

UnitEnum == EnumClass(<<"celsius", "fahrenheit">>)

ColorEnum == EnumClass(<<"red", "green">>)

\* "opaque" is an annotation that is no type: None, a TypeVar, a string
AtomTypes ==
    {Atom(t) : t \in {"str", "bool", "int", "float", "Any", "NoneType",
                      "_empty", "list", "dict", "tuple", "object", "opaque"}
                     \cup GenericTags}
    \cup {UnitEnum}

LiteralTypes == {Literal(v) : v \in DistinctSeqs(LitVals, MaxLit)}

UnionPool ==
    {Atom("str"), Atom("int"), Atom("bool"), NoneType, Atom("Any"),
     Atom("list"), Atom("list[int]"), UnitEnum, Literal(<<"'a'">>),
     Literal(<<"'a'", "1">>), Annotated(Atom("str"), <<Atom("opaque")>>)}

UnionTypes ==
    {Union(m) : m \in {s \in DistinctSeqs(UnionPool, MaxUnion) : Len(s) >= 2}}

MetaItems ==
    {Doc("city name"), Doc("second doc"), StrObj("plain text"), ColorEnum,
     Atom("opaque")}

AnnotatedBases ==
    {Atom("str"), Atom("Any"), Atom("list[int]"), UnitEnum,
     Literal(<<"'a'", "1">>), Literal(<<"'a'", "None">>),
     Literal(<<"0", "1">>), Union(<<Atom("str"), NoneType>>)}

AnnotatedTypes ==
    {Annotated(b, m) : b \in AnnotatedBases, m \in DistinctSeqs(MetaItems, MaxMeta)}

AllTypes == AtomTypes \cup LiteralTypes \cup UnionTypes \cup AnnotatedTypes

\* annotations used for callables with several parameters
SmallTypes ==
    {Atom("str"), Union(<<Atom("str"), NoneType>>), Literal(<<"'a'">>),
     Atom("list[int]"), Annotated(Atom("int"), <<Doc("city name")>>),
     Annotated(Literal(<<"'a'", "None">>), <<ColorEnum>>)}

Param(name, annotation, default) ==
    [name |-> name, annotation |-> annotation, default |-> default]

Callable(name, doc, params) == [name |-> name, doc |-> doc, params |-> params]

\* sig.parameters of the callables: one parameter of any type, or up to
\* MaxParams parameters of the small types, named by position
Signatures ==
    {<<Param(ParamNames[3], t, d)>> : t \in AllTypes, d \in Defaults}
    \cup UNION {
        {[k \in 1..n |-> Param(ParamNames[k], ts[k], ds[k])] :
            ts \in [1..n -> SmallTypes], ds \in [1..n -> {Empty, "'D'"}]}
        : n \in 0..MaxParams}

\* inspect.getdoc(func) is None for a callable without docstring
Callables ==
    {Callable("get_weather", "Returns the weather.", ps) : ps \in Signatures}
    \cup {Callable("get_weather", "None", ps) :
            ps \in {s \in Signatures : Len(s) # 1}}

\* ------------------------------------------------------------------- state
VARIABLES func, hashSeed, format, pc, i, properties, required, exc, returned

vars == <<func, hashSeed, format, pc, i, properties, required, exc, returned>>

NoResult ==
    [status |-> "none", key |-> "", name |-> "", description |-> "",
     properties |-> <<>>, required |-> <<>>]

Raised == [NoResult EXCEPT !.status = "raised"]

Init ==
    /\ func \in Callables
    /\ hashSeed \in 0..MaxSeed
    /\ format = "openai"
    /\ pc = "idle"
    /\ i = 0
    /\ properties = <<>>
    /\ required = <<>>
    /\ exc = ""
    /\ returned = [f \in Formats |-> NoResult]

\* get_function_schema(func, fmt) is entered: signature read, schema created
Call(fmt) ==
    /\ pc \in {"idle", "done", "raised"}
    /\ returned[fmt].status = "none"
    /\ format' = fmt
    /\ pc' = "loop"
    /\ i' = 0
    /\ properties' = <<>>
    /\ required' = <<>>
    /\ exc' = ""
    /\ UNCHANGED <<func, hashSeed, returned>>

\* one iteration of the loop over params.items()
ProcessParam ==
    /\ pc = "loop"
    /\ i < Len(func.params)
    /\ LET param == func.params[i + 1]
           T == BaseType(param)
           first == NonLiteralRequired(T, default_value(param))
       IN IF guess_type(T, hashSeed).kind = "raise"
          THEN /\ pc' = "raised"
               /\ exc' = "guess_type"
               /\ returned' = [returned EXCEPT ![format] = Raised]
               /\ UNCHANGED <<i, properties, required>>
          ELSE /\ properties' = Append(properties, PropertyEntry(param, hashSeed))
               /\ IF first = "raise"
                  THEN /\ pc' = "raised"
                       /\ exc' = "isinstance"
                       /\ returned' = [returned EXCEPT ![format] = Raised]
                       /\ UNCHANGED <<i, required>>
                  ELSE /\ required' =
                            required
                            \o (IF first = "True" THEN <<param.name>> ELSE <<>>)
                            \o (IF LiteralRequired(T) THEN <<param.name>> ELSE <<>>)
                       /\ i' = i + 1
                       /\ UNCHANGED <<pc, exc, returned>>
    /\ UNCHANGED <<func, hashSeed, format>>

\* after the loop: envelope key, required deduplicated, document returned
Return ==
    /\ pc = "loop"
    /\ i = Len(func.params)
    /\ required' = ListOfSet(Range(required), ParamNames, hashSeed)
    /\ returned' = [returned EXCEPT ![format] =
                        [status |-> "returned",
                         key |-> parms_key(format),
                         name |-> func.name,
                         description |-> func.doc,
                         properties |-> properties,
                         required |-> required']]
    /\ pc' = "done"
    /\ UNCHANGED <<func, hashSeed, format, i, properties, exc>>

Next ==
    \/ \E fmt \in Formats : Call(fmt)
    \/ ProcessParam
    \/ Return

Spec == Init /\ [][Next]_vars

\* ------------------------------------------------------------ properties
\* name, annotation parts and property of the k-th parameter of the call
ParamAt(k) == func.params[k]

TypeAt(k) == BaseType(ParamAt(k))

MetadataAt(k) ==
    IF ParamAt(k).annotation.tag = "Annotated"
    THEN Tail(ParamAt(k).annotation.args) ELSE <<>>

RequiredNames == Range(required)

NoDuplicates(s) == \A a, b \in 1..Len(s) : a # b => s[a] # s[b]

\* the call raised while it was processing the k-th parameter
RaisedAt(k) == pc = "raised" /\ k = i + 1

IsNonNullLiteral(T) == T.tag = "Literal" /\ "None" \notin Range(T.lits)

\* C1: every processed parameter whose base type is a Literal without None
\* (falsy values such as 0, False, '' included) is in required, with or
\* without a default.
C1_NonNullLiteralRequired ==
    \A k \in 1..i :
        IsNonNullLiteral(TypeAt(k)) => ParamAt(k).name \in RequiredNames

\* a declared type that does not admit None: a primitive, a list or mapping,
\* a union without None, a Literal without None
NonNullable(T) ==
    \/ T.tag \in {"str", "bool", "int", "float", "list", "dict", "tuple"}
    \/ T.tag \in GenericTags
    \/ T.tag = "Union" /\ \A j \in 1..Len(T.args) : T.args[j].tag # "NoneType"
    \/ IsNonNullLiteral(T)

\* C2: every processed parameter with an explicit default and a non-nullable
\* type is absent from required and its property carries exactly that default.
C2_DefaultNotRequired ==
    \A k \in 1..i :
        (ParamAt(k).default # Empty /\ NonNullable(TypeAt(k))) =>
            /\ ParamAt(k).name \notin RequiredNames
            /\ "default" \in properties[k].keys
            /\ properties[k].default = ParamAt(k).default

IsOptional(T) ==
    T.tag = "Union" /\ Len(T.args) = 2 /\ T.args[2].tag = "NoneType"

\* C3: a parameter declared Optional[T] without default is processed without
\* error, is absent from required, and its type field equals guess_type(T).
C3_OptionalNotRequired ==
    \A k \in 1..Len(func.params) :
        (IsOptional(TypeAt(k)) /\ ParamAt(k).default = Empty) =>
            /\ ~RaisedAt(k)
            /\ k <= i =>
                /\ ParamAt(k).name \notin RequiredNames
                /\ properties[k].type = guess_type(TypeAt(k).args[1], hashSeed)

\* C4: get_function_schema never raises, whatever the declared types are.
C4_NeverRaises == pc # "raised"

\* the description the specification prescribes for the k-th parameter
ClaimedDescription(k) ==
    LET docs == FirstWith(MetadataAt(k), "Doc")
        strs == FirstWith(MetadataAt(k), "strobj")
    IN IF docs # <<>> THEN docs[1].lits[1]
       ELSE IF strs # <<>> THEN strs[1].lits[1]
       ELSE "The " \o ParamAt(k).name \o " parameter"

\* C5: the description of every property is the first Doc of the metadata,
\* else the first plain string, else "The <name> parameter" with the actual
\* parameter name, for annotated and un-annotated parameters alike.
C5_Description ==
    \A k \in 1..Len(properties) :
        /\ "description" \in properties[k].keys
        /\ properties[k].description = ClaimedDescription(k)

\* the distinct tokens the non-None members of a union map to
MemberTokens(T) ==
    UNION {Range(guess_type(T.args[j], hashSeed).toks) :
            j \in {m \in 1..Len(T.args) : T.args[m].tag # "NoneType"}}

\* C6: guess_type on a Union returns (never raises): the single token as a
\* scalar when the non-None members map to exactly one distinct token,
\* otherwise the list of the distinct tokens without duplicates.
C6_UnionDedup ==
    \A k \in 1..Len(func.params) :
        TypeAt(k).tag = "Union" =>
            /\ ~(RaisedAt(k) /\ exc = "guess_type")
            /\ k <= Len(properties) =>
                LET r == properties[k].type
                    S == MemberTokens(TypeAt(k))
                IN /\ Cardinality(S) = 1 => (r.kind = "str" /\ r.toks[1] \in S)
                   /\ Cardinality(S) # 1 =>
                        /\ r.kind = "list"
                        /\ Range(r.toks) = S
                        /\ NoDuplicates(r.toks)

\* the enum a property must carry when the enumeration types are searched
\* in candidates and the base type T is the fallback
ClaimedEnum(candidates, T) ==
    LET enums == FirstWith(candidates, "Enum")
    IN IF enums # <<>> THEN <<enums[1].lits>>
       ELSE IF T.tag = "Literal"
            THEN <<SelectSeq(T.lits, LAMBDA v : v # "None")>>
            ELSE <<>>

EnumAgrees(k, claimed) ==
    /\ ("enum" \in properties[k].keys) <=> (claimed # <<>>)
    /\ claimed # <<>> => properties[k].enum = claimed[1]
    /\ "None" \notin Range(properties[k].enum)

\* C7 as stated: enum is the member names of the first enumeration type in
\* the Annotated metadata, else the values of a Literal base type, else
\* omitted; never a None member.
C7_EnumFromMetadata ==
    \A k \in 1..Len(properties) :
        EnumAgrees(k, ClaimedEnum(MetadataAt(k), TypeAt(k)))

\* C7 amended: the enumeration type is searched among all Annotated
\* arguments, the base type first, then the metadata.
C7_EnumFromAnnotatedArgs ==
    \A k \in 1..Len(properties) :
        EnumAgrees(k, ClaimedEnum(
            IF ParamAt(k).annotation.tag = "Annotated"
            THEN ParamAt(k).annotation.args ELSE <<>>, TypeAt(k)))

C7_Witness ==
    \E k \in 1..Len(properties) :
        /\ ParamAt(k).annotation.tag = "Annotated"
        /\ TypeAt(k).tag = "Enum"
        /\ FirstWith(MetadataAt(k), "Enum") # <<>>
        /\ "enum" \in properties[k].keys
        /\ properties[k].enum = TypeAt(k).lits

DefaultAgrees(props) ==
    \A k \in 1..Len(props) :
        /\ ("default" \in props[k].keys) <=> (ParamAt(k).default # Empty)
        /\ "default" \in props[k].keys =>
            /\ props[k].default = ParamAt(k).default
            /\ props[k].default # Empty

\* C8: a property has a default field iff the signature supplies a default;
\* a default of None is emitted as None; the "not provided" sentinel is
\* never emitted.
C8_DefaultIffSupplied ==
    /\ DefaultAgrees(properties)
    /\ \A f \in Formats : DefaultAgrees(returned[f].properties)

C8_Witness ==
    \E k \in 1..Len(returned["openai"].properties) :
        /\ ParamAt(k).default = "None"
        /\ "default" \in returned["openai"].properties[k].keys
        /\ returned["openai"].properties[k].default = "None"

\* C9: the results for "claude" and for any other format differ only in the
\* envelope key: "input_schema" for "claude", "parameters" otherwise.
C9_FormatOnlyChangesKey ==
    /\ \A f \in Formats :
        returned[f].status = "returned" =>
            returned[f].key = IF f = "claude" THEN "input_schema" ELSE "parameters"
    /\ \A f, g \in Formats :
        (returned[f].status # "none" /\ returned[g].status # "none") =>
            [returned[f] EXCEPT !.key = ""] = [returned[g] EXCEPT !.key = ""]

C9_Witness ==
    /\ \A f \in Formats : returned[f].status = "returned"
    /\ Len(returned["claude"].properties) >= 2
    /\ returned["claude"].required # <<>>

PropertyNames(props) == {props[k].name : k \in 1..Len(props)}

\* C10: inside the loop, properties holds exactly the first i parameter
\* names in declaration order, each with type and description; required
\* has no name twice and only property names; so has the final required.
C10_LoopInvariant ==
    /\ pc \in {"loop", "done"} => Len(properties) = i
    /\ Len(properties) <= Len(func.params)
    /\ \A k \in 1..Len(properties) :
        /\ properties[k].name = ParamAt(k).name
        /\ {"type", "description"} \subseteq properties[k].keys
    /\ NoDuplicates(required)
    /\ RequiredNames \subseteq PropertyNames(properties)
    /\ \A f \in Formats :
        /\ NoDuplicates(returned[f].required)
        /\ Range(returned[f].required) \subseteq PropertyNames(returned[f].properties)

C10_Witness ==
    /\ pc = "loop"
    /\ i = 2
    /\ TypeAt(1).tag = "Literal"
    /\ required = <<ParamAt(1).name, ParamAt(2).name>>

====
